---- MODULE Spec2Model ----
\* Model of source/redux/middleware/asynchronous.js: the asynchronous Redux
\* middleware (pending / success / failure notifications, cancellation of the
\* previous operation of the same pending event name, error reporting).
EXTENDS Integers, Sequences, FiniteSets, TLC

VARIABLES
  server,                \* the `server` argument of asynchronous_middleware
  on_error,              \* the `on_error` argument: "none", "returns" or "raises"
  pool,                  \* the actions the application may dispatch in this run
  limit,                 \* how many actions the application dispatches at most
  actions,               \* the actions that entered the middleware, in order
  result,                \* per call: what the middleware call returned or threw
  op,                    \* per call: the operation returned by `promise()`
  outer,                 \* per call: the `new Promise` returned to the caller
  cancellable_promises,  \* the closure's table: pending event name -> call id
  log                    \* every observable call made by the middleware, in order

vars == <<server, on_error, pool, limit, actions, result, op, outer,
          cancellable_promises, log>>

----------------------------------------------------------------------------
\* Bounds of the model.

MaxIntents == 2
MaxChain == 3

----------------------------------------------------------------------------
\* JavaScript values.

RESULT_ACTION_PROPERTY == "value"
ERROR_ACTION_PROPERTY == "error"

Undefined == "undefined"

\* A value that is not a string (the number 42 / 7), written as a tagged string.
NotAString == {"#42", "#7"}

IsString(v) == v \notin NotAString /\ v # Undefined

EmptyObject == [k \in {} |-> Undefined]

\* obj[key], `undefined` when the key is absent
Get(obj, key) == IF key \in DOMAIN obj THEN obj[key] ELSE Undefined

\* a boolean option of an object is truthy
Flag(obj, key) == key \in DOMAIN obj /\ obj[key] = TRUE

\* `promise` field values: functions returning a plain thenable, a thenable with
\* cancel(), or something that is not a thenable; or a value that is no function.
Callable == {"fn:plain", "fn:cancellable", "fn:notawaitable"}

\* the `events` field: an array, or a number (no `length`)
Array(items) == [kind |-> "array", items |-> items]
ANumber == [kind |-> "number", items |-> <<>>]
NoEvents == [kind |-> "undefined", items |-> <<>>]

\* events.length
Length(ev) == IF ev.kind = "array" THEN Len(ev.items) ELSE -1

\* The injected naming function: three event names from a base name.
redux_event_naming(event) ==
  Array(<<event \o "_PENDING", event \o "_SUCCESS", event \o "_FAILURE">>)

----------------------------------------------------------------------------
\* Raw errors an operation may reject with, and the results it may resolve with.

\* A raw error: an identity (`ref`), whether it is an object at all (an operation
\* may reject with `undefined`), its own status / message and its `data` payload.
RawError(ref, kind, has_data, data, status, message) ==
  [ref |-> ref, kind |-> kind, has_data |-> has_data, data |-> data,
   status |-> status, message |-> message]

NoError == RawError("none", "none", FALSE, EmptyObject, Undefined, Undefined)

ErrPlain == RawError("E1", "object", FALSE, EmptyObject, "500", "boom")
ErrData == RawError("E2", "object", TRUE, [status |-> "404"], Undefined, "Not Found")
ErrUndefined == RawError("E3", "undefined", FALSE, EmptyObject, Undefined, Undefined)

Errors == {ErrData, ErrUndefined}
Results == {"v1"}

\* a `data` payload: each of status / message / code absent or present
Payload(status, message, code) ==
  [k \in {f \in {"status", "message", "code"} :
            \/ f = "status" /\ status # "absent"
            \/ f = "message" /\ message # "absent"
            \/ f = "code" /\ code # "absent"} |->
     IF k = "status" THEN status ELSE IF k = "message" THEN message ELSE code]

Payloads ==
  {Payload(status, message, code) :
     status \in {"absent", Undefined, "404"},
     message \in {"absent", "Bad"},
     code \in {"absent", "E_X"}}

\* raw errors of every shape parse_error distinguishes
RawErrors ==
  {RawError("E", "object", TRUE, data, status, message) :
     data \in Payloads, status \in {Undefined, "500"},
     message \in {Undefined, "Not Found"}}
  \cup {RawError("E", "object", FALSE, EmptyObject, status, message) :
          status \in {Undefined, "500"}, message \in {Undefined, "Not Found"}}
  \cup {ErrPlain, ErrData, ErrUndefined}

\* helpers: exists(x), is_object(x)
exists(x) == x # Undefined
is_object(error) == error.has_data

\* obj with obj[key] = value
Put(obj, key, value) ==
  [k \in DOMAIN obj \cup {key} |-> IF k = key THEN value ELSE obj[k]]

parse_error_own_fields_first(error) ==
  IF error.kind = "undefined"
  THEN [raised |-> TRUE, normalized |-> EmptyObject, raw |-> error]
  ELSE LET error_data == IF is_object(error) THEN error.data ELSE EmptyObject
           normalized == Put(Put(error_data, "status", error.status),
                             "message", error.message)
       IN [raised |-> FALSE, normalized |-> normalized,
           raw |-> IF is_object(error) THEN [error EXCEPT !.data = normalized]
                   ELSE error]

\* parse_error(error): the normalized object, whether the call raised, and the raw
\* error as the call leaves it (error_data IS error.data when that is an object,
\* so the assignments to error_data write into the raw error).
parse_error(error) ==
  IF error.kind = "undefined"
  THEN [raised |-> TRUE, normalized |-> EmptyObject, raw |-> error]
  ELSE LET error_data == IF is_object(error) THEN error.data ELSE EmptyObject
           with_status == IF ~exists(Get(error_data, "status"))
                          THEN Put(error_data, "status", error.status)
                          ELSE error_data
           with_message == IF ~exists(Get(with_status, "message"))
                           THEN Put(with_status, "message", error.message)
                           ELSE with_status
       IN [raised |-> FALSE,
           normalized |-> with_message,
           raw |-> IF is_object(error) THEN [error EXCEPT !.data = with_message]
                   ELSE error]

----------------------------------------------------------------------------
\* The log of observable calls, and the per-call records.

Entry(ev, id, arg, target) == [ev |-> ev, id |-> id, arg |-> arg, target |-> target]

RestKeepsReserved(action) == action

\* `let { promise, event, events, cancelPrevious, ...rest } = action`
Reserved == {"promise", "event", "events", "cancelPrevious"}
Rest(action) == [k \in DOMAIN action \ Reserved |-> action[k]]

\* { ...rest, type: t }
Pending(rest, t) == Put(rest, "type", t)
SettledWithoutProperty(rest, t, property, v) == Put(rest, "type", t)

\* { ...rest, type: t, [property]: v }
Settled(rest, t, property, v) == Put(Put(rest, "type", t), property, v)

\* typeof promise === 'function'
HasPromise(action) == Get(action, "promise") \in Callable

\* dispatch(note): the store's dispatch runs the whole chain again, this
\* middleware included, which hands a note without a `promise` function to next.
\* The store is taken to accept every note and return normally; the collaborators
\* that may raise in a callback are parse_error (on `undefined`) and on_error.
Dispatch(id, note) ==
  <<Entry("dispatch", id, note, 0),
    Entry(IF HasPromise(note) THEN "intercepted_again" ELSE "next", id, note, 0)>>

StartBeforePending(id, rest, Request) ==
  <<Entry("promise", id, EmptyObject, 0)>> \o Dispatch(id, Pending(rest, Request))

\* lines 48-52: dispatch the pending event, then run `promise(...)`
Start(id, rest, Request) ==
  Dispatch(id, Pending(rest, Request)) \o <<Entry("promise", id, EmptyObject, 0)>>

PassThroughDropsResult(action, id) ==
  [result |-> [kind |-> "undefined", of |-> action],
   entries |-> <<Entry("next", id, action, 0)>>]

\* lines 28-31: `return next(action)`
PassThrough(action, id) ==
  [result |-> [kind |-> "next_result", of |-> action],
   entries |-> <<Entry("next", id, action, 0)>>]

CancelPreviousSkipped(id, table, Request) == <<>>

\* lines 67-70: cancel the operation the table holds for this event name
CancelPrevious(id, table, Request) ==
  IF Request \in DOMAIN table
  THEN <<Entry("cancel", id, EmptyObject, table[Request])>>
  ELSE <<>>

NoOp ==
  [state |-> "none", cancel |-> FALSE, cancellable |-> FALSE, events |-> <<>>,
   value |-> Undefined, error |-> NoError, handler |-> "none"]

NoOuter == [state |-> "none", value |-> Undefined, error |-> NoError]

EventsAlwaysNamed(action) ==
  LET events == IF "events" \in DOMAIN action THEN action.events ELSE NoEvents
  IN IF events.kind = "undefined"
     THEN redux_event_naming(Get(action, "event"))
     ELSE events

EventsPreferNaming(action) ==
  LET events == IF "events" \in DOMAIN action THEN action.events ELSE NoEvents
  IN IF IsString(Get(action, "event"))
     THEN redux_event_naming(action.event)
     ELSE events

\* the `events` the validation sees (lines 25-37)
Events(action) ==
  LET events == IF "events" \in DOMAIN action THEN action.events ELSE NoEvents
  IN IF events.kind = "undefined" /\ IsString(Get(action, "event"))
     THEN redux_event_naming(action.event)
     ELSE events

\* `!events || events.length !== 3`
InvalidEvents(events) == events.kind = "undefined" \/ Length(events) # 3

AcceptsAnyPromised(promise) == FALSE

\* line 55: `!promised || typeof promised.then !== 'function'`
NotAPromise(promise) == promise = "fn:notawaitable"

CancellableWithoutOption(action) ==
  ~server /\ action.promise = "fn:cancellable"

\* line 61: `!server && cancelPrevious && typeof promised.cancel === 'function'`
Cancellable(action) ==
  /\ ~server
  /\ Flag(action, "cancelPrevious")
  /\ action.promise = "fn:cancellable"

ReportingWhilePreloading(action) == ~server /\ on_error # "none"

\* line 147: `!server && on_error && !action.preloading`
Reporting(action) ==
  ~server /\ on_error # "none" /\ ~Flag(action, "preloading")

\* One call of the middleware, `next => action => ...` (lines 23-181), up to its
\* return: what it returns or throws, the calls it makes, the operation it
\* started, the promise it returns and the table it leaves.
Middleware(action, id, table) ==
  LET events == Events(action)
      rest == Rest(action)
      unchanged == [op |-> NoOp, outer |-> NoOuter, table |-> table]
  IN IF ~HasPromise(action)
     THEN PassThrough(action, id) @@ unchanged
     ELSE IF InvalidEvents(events)
     THEN [result |-> [kind |-> "thrown", of |-> action], entries |-> <<>>] @@ unchanged
     ELSE
       LET Request == events.items[1]
           started == Start(id, rest, Request)
       IN IF NotAPromise(action.promise)
          THEN [result |-> [kind |-> "thrown", of |-> action], entries |-> started]
                 @@ unchanged
          ELSE
            LET cancellable == Cancellable(action)
            IN [result |-> [kind |-> "promise", of |-> action],
                entries |-> started \o
                            (IF cancellable THEN CancelPrevious(id, table, Request)
                             ELSE <<>>),
                op |-> [state |-> "running",
                        cancel |-> action.promise = "fn:cancellable",
                        cancellable |-> cancellable,
                        events |-> events.items,
                        value |-> Undefined, error |-> NoError,
                        handler |-> "waiting"],
                outer |-> [state |-> "pending", value |-> Undefined, error |-> NoError],
                table |-> IF cancellable THEN Put(table, Request, id) ELSE table]

----------------------------------------------------------------------------
\* The actions the application dispatches.

PSF == Array(<<"P", "S", "F">>)
QSF == Array(<<"Q", "S", "F">>)

\* actions with a well-formed `events` triple (or a base `event` name)
LifecyclePool ==
  { [promise |-> "fn:cancellable", events |-> PSF, cancelPrevious |-> TRUE, query |-> "a"],
    [promise |-> "fn:cancellable", events |-> QSF, cancelPrevious |-> TRUE, query |-> "a"],
    [promise |-> "fn:plain", events |-> PSF, cancelPrevious |-> TRUE, preloading |-> TRUE],
    [promise |-> "fn:notawaitable", events |-> PSF, cancelPrevious |-> TRUE, query |-> "a"],
    [type |-> "PLAIN", query |-> "a"] }

\* actions of every shape the validation distinguishes
ShapePool ==
  { [type |-> "PLAIN", query |-> "a"],
    [type |-> "PLAIN", promise |-> "#42", events |-> PSF, cancelPrevious |-> TRUE],
    [type |-> "PLAIN", event |-> "P"],
    [promise |-> "fn:plain", query |-> "a"],
    [promise |-> "fn:cancellable", event |-> "#7", cancelPrevious |-> TRUE],
    [promise |-> "fn:plain", event |-> "P", query |-> "a"],
    [promise |-> "fn:plain", events |-> PSF, event |-> "Q", query |-> "a"],
    [promise |-> "fn:plain", events |-> Array(<<"P", "S">>), query |-> "a"],
    [promise |-> "fn:plain", events |-> Array(<<"P", "S", "F", "G">>), query |-> "a"],
    [promise |-> "fn:plain", events |-> Array(<<>>), event |-> "P", query |-> "a"],
    [promise |-> "fn:plain", events |-> Array(<<"#42", "S", "F">>), query |-> "a"],
    [promise |-> "fn:cancellable", events |-> Array(<<"P", "#42", "F">>),
     cancelPrevious |-> TRUE],
    [promise |-> "fn:plain", events |-> ANumber, query |-> "a"],
    [promise |-> "fn:notawaitable", events |-> ANumber, event |-> "P"] }

\* same event name, with and without what makes an operation cancellable
CancelPool ==
  { [promise |-> "fn:cancellable", events |-> PSF, cancelPrevious |-> TRUE, query |-> "a"],
    [promise |-> "fn:cancellable", events |-> PSF, cancelPrevious |-> FALSE, query |-> "a"],
    [promise |-> "fn:cancellable", events |-> PSF, query |-> "a"],
    [promise |-> "fn:plain", events |-> PSF, cancelPrevious |-> TRUE, query |-> "a"] }

\* actions with and without `preloading`, with an own `type` and a payload
ReportPool ==
  { [promise |-> "fn:plain", events |-> PSF, type |-> "LOAD", query |-> "a"],
    [promise |-> "fn:plain", events |-> PSF, preloading |-> TRUE, query |-> "a"],
    [promise |-> "fn:plain", event |-> "P", preloading |-> FALSE,
     cancelPrevious |-> TRUE, query |-> "b"] }

\* one cancellable action, dispatched again and again
ChainPool ==
  { [promise |-> "fn:cancellable", events |-> PSF, cancelPrevious |-> TRUE, query |-> "a"] }

\* actions naming their events by `events`, by `event`, or by both
NamingPool ==
  { [promise |-> "fn:plain", events |-> PSF, event |-> "Q", query |-> "a"],
    [promise |-> "fn:plain", event |-> "P", query |-> "a"],
    [promise |-> "fn:plain", events |-> QSF, query |-> "a"],
    [promise |-> "fn:plain", events |-> ANumber, event |-> "P", query |-> "a"] }

\* one action whose operation fails
ParsePool == { [promise |-> "fn:plain", events |-> PSF, query |-> "a"] }

----------------------------------------------------------------------------
\* The state machine.

Configured ==
  /\ server \in BOOLEAN
  /\ on_error \in {"none", "returns", "raises"}
  /\ actions = <<>>
  /\ result = <<>>
  /\ op = <<>>
  /\ outer = <<>>
  /\ cancellable_promises = EmptyObject
  /\ log = <<>>

Init == Configured /\ pool = LifecyclePool /\ limit = MaxIntents

InitShape == Configured /\ pool = ShapePool /\ limit = MaxIntents

InitCancel ==
  Configured /\ on_error = "none" /\ pool = CancelPool /\ limit = MaxIntents

InitReport == Configured /\ pool = ReportPool /\ limit = MaxIntents

InitChain ==
  Configured /\ ~server /\ on_error = "none" /\ pool = ChainPool /\ limit = MaxChain

InitNaming ==
  Configured /\ on_error = "none" /\ pool = NamingPool /\ limit = MaxIntents

InitParse == Configured /\ pool = ParsePool /\ limit = 1

Ids == 1..Len(actions)

\* the application dispatches `action`: the middleware runs up to its return
Intercept(action) ==
  /\ Len(actions) < limit
  /\ LET id == Len(actions) + 1
         call == Middleware(action, id, cancellable_promises)
     IN /\ actions' = Append(actions, action)
        /\ result' = Append(result, call.result)
        /\ op' = Append(op, call.op)
        /\ outer' = Append(outer, call.outer)
        /\ cancellable_promises' = call.table
        /\ log' = log \o call.entries
  /\ UNCHANGED <<server, on_error, pool, limit>>

\* the operation of call `id` resolves with `value`
Resolve(id, value) ==
  /\ op[id].state = "running"
  /\ op' = [op EXCEPT ![id].state = "resolved", ![id].value = value]
  /\ UNCHANGED <<server, on_error, pool, limit, actions, result, outer,
                 cancellable_promises, log>>

\* the operation of call `id` rejects with `error`
Reject(id, error) ==
  /\ op[id].state = "running"
  /\ op' = [op EXCEPT ![id].state = "rejected", ![id].error = error]
  /\ UNCHANGED <<server, on_error, pool, limit, actions, result, outer,
                 cancellable_promises, log>>

\* `delete cancellable_promises[Request]`
Delete(table, key) == [k \in DOMAIN table \ {key} |-> table[k]]

\* the first callback of promised.then (lines 88-113)
OnResolved(id) ==
  /\ op[id].state = "resolved"
  /\ op[id].handler = "waiting"
  /\ cancellable_promises' =
       IF op[id].cancellable
       THEN Delete(cancellable_promises, op[id].events[1])
       ELSE cancellable_promises
  /\ log' = log \o <<Entry("callback", id, EmptyObject, 0)>>
                 \o Dispatch(id, Settled(Rest(actions[id]), op[id].events[2],
                                        RESULT_ACTION_PROPERTY, op[id].value))
  /\ outer' = [outer EXCEPT ![id].state = "resolved", ![id].value = op[id].value]
  /\ op' = [op EXCEPT ![id].handler = "returned"]
  /\ UNCHANGED <<server, on_error, pool, limit, actions, result>>

\* the second callback of promised.then (lines 118-178)
OnRejected(id) ==
  /\ op[id].state = "rejected"
  /\ op[id].handler = "waiting"
  /\ cancellable_promises' =
       IF op[id].cancellable
       THEN Delete(cancellable_promises, op[id].events[1])
       ELSE cancellable_promises
  /\ LET parsed == parse_error(op[id].error)
         failure == Dispatch(id, Settled(Rest(actions[id]), op[id].events[3],
                                         ERROR_ACTION_PROPERTY, parsed.normalized))
         reporting == Reporting(actions[id])
     IN IF parsed.raised
        THEN /\ op' = [op EXCEPT ![id].handler = "raised"]
             /\ log' = log \o <<Entry("callback", id, EmptyObject, 0)>>
             /\ UNCHANGED outer
        ELSE /\ log' = log \o <<Entry("callback", id, EmptyObject, 0)>> \o failure \o
                       (IF reporting
                        THEN <<Entry("on_error", id,
                                     [error |-> parsed.raw, server |-> server], 0)>>
                        ELSE <<>>)
             /\ IF reporting /\ on_error = "raises"
                THEN /\ op' = [op EXCEPT ![id].handler = "raised"]
                     /\ UNCHANGED outer
                ELSE /\ op' = [op EXCEPT ![id].handler = "threw_error"]
                     /\ outer' = [outer EXCEPT ![id].state = "rejected",
                                               ![id].error = parsed.raw]
  /\ UNCHANGED <<server, on_error, pool, limit, actions, result>>

Next ==
  \/ \E action \in pool : Intercept(action)
  \/ \E id \in Ids, value \in Results : Resolve(id, value)
  \/ \E id \in Ids, error \in Errors : Reject(id, error)
  \/ \E id \in Ids : OnResolved(id)
  \/ \E id \in Ids : OnRejected(id)

Spec == Init /\ [][Next]_vars

SpecShape == InitShape /\ [][Next]_vars

SpecCancel == InitCancel /\ [][Next]_vars

SpecReport == InitReport /\ [][Next]_vars

SpecChain == InitChain /\ [][Next]_vars

SpecNaming == InitNaming /\ [][Next]_vars

\* one failing operation, rejecting with any raw error
NextParse ==
  \/ \E action \in pool : Intercept(action)
  \/ \E id \in Ids, error \in RawErrors : Reject(id, error)
  \/ \E id \in Ids : OnRejected(id)

SpecParse == InitParse /\ [][NextParse]_vars

----------------------------------------------------------------------------
\* What the log says about one call.

\* the notifications call `id` handed to dispatch, in order
Notes(id) ==
  LET entries == SelectSeq(log, LAMBDA e : e.ev = "dispatch" /\ e.id = id)
  IN [i \in 1..Len(entries) |-> entries[i].arg]

\* the position in the log of the first `ev` entry of call `id` (0: none)
Pos(ev, id) ==
  LET at == {i \in 1..Len(log) : log[i].ev = ev /\ log[i].id = id}
  IN IF at = {} THEN 0 ELSE CHOOSE i \in at : \A j \in at : i <= j

\* the action of call `id` has a `promise` function and a triple of three strings
WellFormed(id) ==
  LET events == Events(actions[id])
  IN /\ HasPromise(actions[id])
     /\ events.kind = "array"
     /\ Len(events.items) = 3
     /\ \A i \in 1..3 : IsString(events.items[i])

Triple(id) == Events(actions[id]).items

\* a callback of promised.then has run for call `id`, to its end or to a raise
HandlerRan(id) == op[id].handler \in {"returned", "threw_error", "raised"}

PendingNote(id) == Pending(Rest(actions[id]), Triple(id)[1])

----------------------------------------------------------------------------
\* C1: every intercepted action with a triple of three strings emits its pending
\* notification inside the middleware call, first, and then exactly one settle
\* notification: never two, and never none once its operation has settled and
\* the callback has run.
C1_ExactlyOneSettle ==
  \A id \in Ids :
    WellFormed(id) =>
      LET notes == Notes(id)
      IN /\ Len(notes) \in {1, 2}
         /\ notes[1] = PendingNote(id)
         /\ Len(notes) = 2 => notes[2].type \in {Triple(id)[2], Triple(id)[3]}
         /\ HandlerRan(id) => Len(notes) = 2

\* C2: an operation that resolves with V: exactly the two notifications
\* {...rest, type: P} and {...rest, type: S, value: V} are dispatched, in that
\* order, none for F, and the returned promise resolves to V.
C2_ResolvedSequence ==
  \A id \in Ids :
    (WellFormed(id) /\ op[id].state = "resolved") =>
      IF HandlerRan(id)
      THEN /\ Notes(id) = <<PendingNote(id),
                            Put(PendingNote(id), "type", Triple(id)[2])
                              @@ [value |-> op[id].value]>>
           /\ outer[id].state = "resolved"
           /\ outer[id].value = op[id].value
      ELSE /\ Notes(id) = <<PendingNote(id)>>
           /\ outer[id].state = "pending"

C2_Witness ==
  \E id \in Ids :
    /\ WellFormed(id)
    /\ op[id].state = "resolved"
    /\ HandlerRan(id)
    /\ Len(Notes(id)) = 2
    /\ outer[id].state = "resolved"

\* C3: an operation that rejects with E: exactly the two notifications
\* {...rest, type: P} and {...rest, type: F, error: normalize(E)} are dispatched,
\* none for S, and the returned promise rejects with E itself (the same object),
\* not with the normalized object.
C3_RejectedSequence ==
  \A id \in Ids :
    (WellFormed(id) /\ op[id].state = "rejected" /\ HandlerRan(id)) =>
      /\ Len(Notes(id)) = 2
      /\ Notes(id)[1] = PendingNote(id)
      /\ Notes(id)[2] = Put(PendingNote(id), "type", Triple(id)[3])
                          @@ [error |-> parse_error(op[id].error).normalized]
      /\ outer[id].state = "rejected"
      /\ outer[id].error.ref = op[id].error.ref

----------------------------------------------------------------------------
\* Cancellation.

\* call `id` started an operation the middleware treats as cancellable (line 61)
IsCancellable(id) ==
  /\ ~server
  /\ Flag(actions[id], "cancelPrevious")
  /\ Get(actions[id], "promise") = "fn:cancellable"
  /\ result[id].kind = "promise"

\* the log positions where cancel() was invoked on the operation of call `id`
Cancels(id) == {k \in 1..Len(log) : log[k].ev = "cancel" /\ log[k].target = id}

\* the log position of the last call the middleware made before call `id` returned
CallEnd(id) ==
  LET started == Pos("promise", id)
  IN IF /\ started < Len(log)
        /\ log[started + 1].ev = "cancel"
        /\ log[started + 1].id = id
     THEN started + 1
     ELSE started

\* calls i and j are dispatched back to back (nothing runs between the return of
\* call i and call j), both cancellable with the same pending event name
BackToBack(i, j) ==
  /\ j = i + 1
  /\ IsCancellable(i)
  /\ IsCancellable(j)
  /\ Triple(i)[1] = Triple(j)[1]
  /\ Pos("dispatch", j) = CallEnd(i) + 1

\* C4 as stated: the first operation's cancel is invoked exactly once, and before
\* the second action's `promise` callback is invoked.
C4_CancelBeforeStart ==
  \A i, j \in Ids :
    BackToBack(i, j) =>
      /\ Cardinality(Cancels(i)) = 1
      /\ \A k \in Cancels(i) : k < Pos("promise", j)

\* C4 as amended: the first operation's cancel is invoked exactly once, by the
\* second call of the middleware, right after the second action's `promise`
\* callback has been invoked (the second operation is started first).
C4_CancelOnceAfterStart ==
  \A i, j \in Ids :
    BackToBack(i, j) =>
      /\ Cardinality(Cancels(i)) = 1
      /\ \A k \in Cancels(i) : log[k].id = j /\ k = Pos("promise", j) + 1

C4_Witness ==
  \E i, j \in Ids :
    /\ BackToBack(i, j)
    /\ Cancels(i) # {}
    /\ HandlerRan(i)
    /\ HandlerRan(j)

\* C5: the table entry of a cancellable operation X stays until X itself settles
\* or a newer cancellable operation of the same pending event name overwrites it:
\* while X is unsettled and no newer one was started, the table holds X.
C5_EntryKept ==
  \A x \in Ids :
    ( /\ IsCancellable(x)
      /\ ~HandlerRan(x)
      /\ ~\E y \in Ids : y > x /\ IsCancellable(y) /\ Triple(y)[1] = Triple(x)[1] )
    => /\ Triple(x)[1] \in DOMAIN cancellable_promises
       /\ cancellable_promises[Triple(x)[1]] = x

\* C6: once the operation has settled and its callback has run, the returned
\* promise has settled the same way: resolved with V, or rejected with E after
\* exactly one failure notification; it is not left pending.
C6_SettlesTheSameWay ==
  \A id \in Ids :
    HandlerRan(id) =>
      /\ outer[id].state = op[id].state
      /\ op[id].state = "resolved" => outer[id].value = op[id].value
      /\ op[id].state = "rejected" =>
           /\ outer[id].error.ref = op[id].error.ref
           /\ Len(Notes(id)) = 2
           /\ Notes(id)[2].type = Triple(id)[3]

----------------------------------------------------------------------------
\* C7: the pending notification of a call is dispatched before its `promise`
\* callback is invoked, and before every other notification of the same call.
C7_PendingFirst ==
  \A id \in Ids :
    (Pos("promise", id) > 0 \/ Pos("dispatch", id) > 0) =>
      LET first == Pos("dispatch", id)
      IN /\ first > 0
         /\ log[first].arg = PendingNote(id)
         /\ first < Pos("promise", id)
         /\ \A k \in 1..Len(log) :
              (log[k].ev = "dispatch" /\ log[k].id = id /\ k # first) =>
                /\ k > Pos("promise", id)
                /\ log[k].arg.type \in {Triple(id)[2], Triple(id)[3]}
                /\ DOMAIN log[k].arg \cap {"value", "error"} # {}

\* two calls interleave: the second starts between the first one's pending and
\* settle notifications
C7_Witness ==
  \E i, j \in Ids :
    /\ i < j
    /\ Len(Notes(i)) = 2
    /\ Len(Notes(j)) = 2
    /\ Pos("callback", i) > Pos("promise", j)

\* C8: an action without a `promise` function: next is called once with the
\* action itself, its result is what the call returns, nothing is dispatched or
\* cancelled and the table is left as it was.
C8_PassThrough ==
  [][ (Len(actions') = Len(actions) + 1 /\ ~HasPromise(actions'[Len(actions')])) =>
        LET id == Len(actions')
        IN /\ log' = log \o <<Entry("next", id, actions'[id], 0)>>
           /\ result'[id] = [kind |-> "next_result", of |-> actions'[id]]
           /\ cancellable_promises' = cancellable_promises
           /\ op'[id].state = "none"
           /\ outer'[id].state = "none" ]_vars

C8_Witness ==
  \E id \in Ids :
    /\ "promise" \in DOMAIN actions[id]
    /\ ~HasPromise(actions[id])
    /\ result[id].kind = "next_result"
    /\ DOMAIN cancellable_promises # {}

\* C9: a `promise` function, no `events`, and `event` absent or not a string: the
\* call throws, having dispatched nothing, not invoked `promise` and not touched
\* the table.
C9_MissingEvents ==
  [][ ( /\ Len(actions') = Len(actions) + 1
        /\ HasPromise(actions'[Len(actions')])
        /\ "events" \notin DOMAIN actions'[Len(actions')]
        /\ ~IsString(Get(actions'[Len(actions')], "event")) ) =>
        /\ result'[Len(actions')].kind = "thrown"
        /\ log' = log
        /\ cancellable_promises' = cancellable_promises
        /\ op'[Len(actions')].state = "none" ]_vars

C9_Witness ==
  \E id \in Ids :
    /\ HasPromise(actions[id])
    /\ "events" \notin DOMAIN actions[id]
    /\ Get(actions[id], "event") = "#7"
    /\ result[id].kind = "thrown"
    /\ DOMAIN cancellable_promises # {}

\* C10: a resolved triple that is not a sequence of exactly three strings makes
\* the call throw, and nothing is dispatched for it.
C10_TripleOfStrings ==
  \A id \in Ids :
    (HasPromise(actions[id]) /\ ~WellFormed(id)) =>
      /\ result[id].kind = "thrown"
      /\ Len(Notes(id)) = 0

----------------------------------------------------------------------------
\* the notifications of call `id` in a log `l`
NotesIn(l, id) == SelectSeq(l, LAMBDA e : e.ev = "dispatch" /\ e.id = id)

\* C11: when `promise()` returns something that is not a promise, the call throws
\* (it returns no promise at all); no success or failure notification is ever
\* dispatched for it, the call cancels no holder and leaves the table as it was.
C11_NotAPromise ==
  [][ \A id \in 1..Len(actions') :
        ( /\ Get(actions'[id], "promise") = "fn:notawaitable"
          /\ ~InvalidEvents(Events(actions'[id])) ) =>
          /\ result'[id].kind = "thrown"
          /\ outer'[id].state = "none"
          /\ op'[id].state = "none"
          /\ Len(NotesIn(log', id)) = 1
          /\ \A k \in 1..Len(log') : log'[k].ev = "cancel" => log'[k].id # id
          /\ id > Len(actions) => cancellable_promises' = cancellable_promises ]_vars

\* a call whose `promise()` returned no promise threw while the table held an
\* operation of the same pending event name
C11_Witness ==
  \E id \in Ids :
    /\ Get(actions[id], "promise") = "fn:notawaitable"
    /\ Flag(actions[id], "cancelPrevious")
    /\ result[id].kind = "thrown"
    /\ ~server
    /\ Triple(id)[1] \in DOMAIN cancellable_promises
    /\ cancellable_promises[Triple(id)[1]] < id

----------------------------------------------------------------------------
\* the action is not one the claim calls cancellable
NotCancellable(action) ==
  \/ server
  \/ ~Flag(action, "cancelPrevious")
  \/ Get(action, "promise") # "fn:cancellable"

\* C12: a call with server true, or cancelPrevious falsy, or an operation without
\* cancel never invokes cancel, does not write the table when it starts and does
\* not remove an entry when its operation settles; with server true the table
\* stays empty.
C12_OnlyCancellable ==
  [][ /\ server => DOMAIN cancellable_promises' = {}
      /\ \A id \in 1..Len(actions') :
           (HasPromise(actions'[id]) /\ NotCancellable(actions'[id])) =>
             /\ id > Len(actions) => cancellable_promises' = cancellable_promises
             /\ (id <= Len(actions) /\ op[id].handler # op'[id].handler) =>
                  cancellable_promises' = cancellable_promises
             /\ \A k \in 1..Len(log') : log'[k].ev = "cancel" => log'[k].id # id
    ]_vars

\* an operation with cancel() but without the cancelPrevious option started and
\* settled while the table held a cancellable operation of the same event name
C12_Witness ==
  \E id \in Ids :
    /\ Get(actions[id], "promise") = "fn:cancellable"
    /\ ~Flag(actions[id], "cancelPrevious")
    /\ HandlerRan(id)
    /\ Triple(id)[1] \in DOMAIN cancellable_promises
    /\ cancellable_promises[Triple(id)[1]] < id

----------------------------------------------------------------------------
\* Error reporting.

\* the log positions where on_error was invoked for call `id`
Reports(id) == {k \in 1..Len(log) : log[k].ev = "on_error" /\ log[k].id = id}

\* C13: on_error is never invoked when server is true, nor for an action with
\* `preloading` set.
C13_NoReport ==
  \A k \in 1..Len(log) :
    log[k].ev = "on_error" =>
      /\ ~server
      /\ ~Flag(actions[log[k].id], "preloading")

\* on the client, with on_error configured, a preloading action failed without
\* a report while another failure was reported
C13_Witness ==
  /\ ~server
  /\ on_error # "none"
  /\ \E id \in Ids :
       /\ Flag(actions[id], "preloading")
       /\ op[id].state = "rejected"
       /\ op[id].handler = "threw_error"
       /\ Reports(id) = {}
  /\ \E k \in 1..Len(log) : log[k].ev = "on_error"

\* C14: with server false, on_error configured and preloading falsy, each
\* rejection invokes on_error exactly once, with the raw error and server = false,
\* after the failure notification; a resolved operation never invokes it.
C14_ReportedOnce ==
  \A id \in Ids :
    ( /\ ~server
      /\ on_error # "none"
      /\ ~Flag(actions[id], "preloading")
      /\ WellFormed(id)
      /\ HandlerRan(id) ) =>
      /\ op[id].state = "resolved" => Reports(id) = {}
      /\ op[id].state = "rejected" =>
           /\ Cardinality(Reports(id)) = 1
           /\ \A k \in Reports(id) :
                /\ log[k].arg.error.ref = op[id].error.ref
                /\ log[k].arg.server = FALSE
                /\ \E d \in 1..(k - 1) :
                     /\ log[d].ev = "dispatch"
                     /\ log[d].id = id
                     /\ log[d].arg.type = Triple(id)[3]
           /\ outer[id].state \in {"pending", "rejected"}

\* C15: an operation that was cancelled and settles anyway still dispatches its
\* own success or failure notification and settles its own returned promise.
C15_CancelledStillSettles ==
  \A id \in Ids :
    (Cancels(id) # {} /\ HandlerRan(id)) =>
      /\ Len(Notes(id)) = 2
      /\ Notes(id)[2].type = IF op[id].state = "resolved" THEN Triple(id)[2]
                             ELSE Triple(id)[3]
      /\ outer[id].state = op[id].state

----------------------------------------------------------------------------
\* Error normalization.

\* the payload has a value for the field
HasValue(payload, field) == field \in DOMAIN payload /\ payload[field] # Undefined

C18_TripleUsed ==
  \A id \in Ids :
    result[id].kind = "promise" =>
      LET action == actions[id]
          expected == IF "events" \in DOMAIN action THEN action.events.items
                      ELSE <<action.event \o "_PENDING", action.event \o "_SUCCESS",
                             action.event \o "_FAILURE">>
          notes == Notes(id)
      IN /\ Len(expected) = 3
         /\ Len(notes) >= 1
         /\ notes[1].type = expected[1]
         /\ Len(notes) = 2 =>
              notes[2].type = IF "value" \in DOMAIN notes[2] THEN expected[2]
                              ELSE expected[3]

C18_Witness ==
  /\ \E id \in Ids :
       /\ "events" \in DOMAIN actions[id]
       /\ IsString(Get(actions[id], "event"))
       /\ Len(Notes(id)) = 2
       /\ Notes(id)[1].type = "P"
  /\ \E id \in Ids :
       /\ "events" \notin DOMAIN actions[id]
       /\ Len(Notes(id)) = 2
       /\ Notes(id)[1].type = "P_PENDING"

\* C19: of the cancellable operations of one pending event name that are still
\* unsettled, every one but the newest has had its cancel invoked.
C19_OneInFlight ==
  \A x, y \in Ids :
    ( /\ x < y
      /\ IsCancellable(x)
      /\ IsCancellable(y)
      /\ Triple(x)[1] = Triple(y)[1]
      /\ op[x].state = "running"
      /\ op[y].state = "running" ) =>
      Cancels(x) # {}

\* C20: normalizing leaves the raw error as it was: the error the returned
\* promise rejects with and the error given to on_error equal, `data` included,
\* what the operation rejected with.
C20_RawErrorUnchanged ==
  \A id \in Ids :
    (op[id].state = "rejected" /\ HandlerRan(id)) =>
      /\ outer[id].state = "rejected" => outer[id].error = op[id].error
      /\ \A k \in Reports(id) : log[k].arg.error = op[id].error

====
